---------------------------- MODULE Spec2Model ----------------------------
(***************************************************************************)
(* A model of find_suspended_friends (src/main.py): the file cache of the  *)
(* `stored` decorator, the six cached operations that main calls in order, *)
(* the follower/following reconciliation and the table rendering.          *)
(*                                                                         *)
(* Time is counted in whole hours: the wall clock, a cache file's          *)
(* modification time and NOW are naturals, and CACHE_LIFESPAN is 1.         *)
(*                                                                         *)
(* Python values.  A dict is a record (a function on its keys; a key the   *)
(* dict lacks is outside DOMAIN), a list is a sequence, a str is a string, *)
(* a bool a BOOLEAN, an int its decimal literal.  A field that holds a     *)
(* datetime from the API and a str after a trip through the cache file is  *)
(* a tagged value [ty, s]: ty is "datetime", "str" or "None", s the text   *)
(* str() gives.  JSON values, the content of a cache file, are [j, s]: j is the  *)
(* JSON type, s the text of a string or number.                            *)
(***************************************************************************)
EXTENDS Integers, Sequences, FiniteSets, TLC

VARIABLES
    clock,              \* the wall clock (datetime.now(), st_mtime), in hours
    NOW,                \* main.py:26, captured when the process starts
    pc,                 \* where main is: the next call, or idle/done/error
    cache,              \* the working directory: func_name -> cache file or NoFile
    this_user,          \* main's locals (main.py:173-188)
    followers_me,
    following_me,
    suspended_accounts,
    related_accounts,   \* my_suspended_acquaintances' local dict, in insertion order
    table,              \* the rows of the Rich table accounts_table built
    returned,           \* what the latest call of a stored operation returned
    last,               \* the latest call of a stored operation: which path it took
    origin,             \* func_name -> the in-memory value whose dump is the file's content
    wrote,              \* the operations that wrote their file in this run
    prev                \* what the previous run had written, if it ended with an error

vars == <<clock, NOW, pc, cache, this_user, followers_me, following_me,
          suspended_accounts, related_accounts, table, returned, last,
          origin, wrote, prev>>

-----------------------------------------------------------------------------
(* Bounds *)

MaxTime == 1        \* hours the wall clock runs
MaxHandle == 3      \* account handles that exist on the instance
MaxAccounts == 3    \* accounts in followers plus following, reconciler inputs
MaxFetch == 1       \* suspended accounts the API knows of in a full run of main

(* main.py:23, timedelta(hours=1), in hours *)
CACHE_LIFESPAN == 1

-----------------------------------------------------------------------------
(* Python values *)

DateTime(s) == [ty |-> "datetime", s |-> s]
Str(s) == [ty |-> "str", s |-> s]

\* d[k] = v
Put(d, k, v) == [x \in DOMAIN d \cup {k} |-> IF x = k THEN v ELSE d[x]]

\* Handles in the order of Python's str comparison (code points: upper case first).
HandleNames == <<"B", "a", "b", "c", "d">>
Handles == {HandleNames[i] : i \in 1..MaxHandle}
Rank(h) == CHOOSE i \in 1..Len(HandleNames) : HandleNames[i] = h

\* An account as the API returns it; `suspended` may be missing.
ApiAccount(h, susp) ==
    LET base == [acct |-> h, url |-> "https://" \o h,
                 last_status_at |-> DateTime("2022-11-05")]
    IN  IF susp = "absent" THEN base ELSE Put(base, "suspended", susp = "true")

ApiAccounts == {ApiAccount(h, s) : h \in Handles, s \in {"true", "false", "absent"}}

\* The lists of up to n elements of S.
SeqsUpTo(S, n) == UNION {[1..m -> S] : m \in 0..n}

-----------------------------------------------------------------------------
(* json.dumps(data, indent=4, default=str) and json.loads (main.py:51, 58) *)

StringKeys == {"acct", "url", "uri", "title", "short_description", "contact_account"}
NumberKeys == {"id"}
BoolKeys == {"suspended", "follower", "following"}
DateKeys == {"last_status_at", "created_at"}

\* One value of a dict, encoded.  A datetime is not serializable: json calls
\* default, which is str, and writes the text as a JSON string.
JsonValue(k, v) ==
    CASE k \in StringKeys -> [j |-> "string", s |-> v]
      [] k \in NumberKeys -> [j |-> "number", s |-> v]
      [] k \in BoolKeys -> [j |-> IF v THEN "true" ELSE "false", s |-> ""]
      [] k \in DateKeys -> IF v.ty = "None" THEN [j |-> "null", s |-> ""]
                            ELSE [j |-> "string", s |-> v.s]

\* One value of a JSON object, decoded: a JSON string is a str, whatever wrote it.
PyValue(k, jv) ==
    CASE k \in StringKeys -> jv.s
      [] k \in NumberKeys -> jv.s
      [] k \in BoolKeys -> jv.j = "true"
      [] k \in DateKeys -> IF jv.j = "null" THEN [ty |-> "None", s |-> ""]
                            ELSE Str(jv.s)

DumpDict(d) == [k \in DOMAIN d |-> JsonValue(k, d[k])]
LoadDict(o) == [k \in DOMAIN o |-> PyValue(k, o[k])]

\* The operations that return a list of dicts; the others return one dict.
ListOps == {"followers", "following", "my_suspended_acquaintances",
            "suspended_table_rows"}
DictOps == {"instance_summary", "my_info"}
Ops == DictOps \cup ListOps

Dump(func_name, data) ==
    IF func_name \in ListOps
    THEN [i \in 1..Len(data) |-> DumpDict(data[i])]
    ELSE DumpDict(data)

Load(func_name, text) ==
    IF func_name \in ListOps
    THEN [i \in 1..Len(text) |-> LoadDict(text[i])]
    ELSE LoadDict(text)

-----------------------------------------------------------------------------
(* The API client's answers (mastodon.instance, me, account_followers,     *)
(* account_following with fetch_remaining): any of a few values, or an     *)
(* error.                                                                  *)

Instances ==
    {[uri |-> "example.social", title |-> t, short_description |-> "A server",
      version |-> "4.0.2", contact_account |-> [display_name |-> "Admin"]]
        : t \in {"Example", "Example Social"}}

Users == {[id |-> i, acct |-> "me", created_at |-> DateTime("2020-01-01")]
            : i \in {"109", "110"}}

\* In a full run of main the instance has MaxFetch suspended accounts related
\* to the user, and a fetch returns none or one of them.
FetchedAccounts == {ApiAccount(HandleNames[i], "true") : i \in 1..MaxFetch}
FetchedLists == SeqsUpTo(FetchedAccounts, 1)

Raise == [raised |-> TRUE, data |-> <<>>]
Return(data) == [raised |-> FALSE, data |-> data]

-----------------------------------------------------------------------------
(* stored (main.py:31-62) *)

NoFile == [is_file |-> FALSE, text |-> <<>>, mtime |-> 0]

\* main.py:40-42 with one file for all the operations of a kind
CacheFileShared(func_name) ==
    IF func_name \in ListOps THEN "followers" ELSE "instance_summary"

\* main.py:40-42, Path(f"{func_name}.json"): the file is named after the operation
CacheFile(func_name) == func_name

\* main.py:49 wrongly written with <=
IsFreshInclusive(mtime) == NOW - mtime <= CACHE_LIFESPAN

\* main.py:49 wrongly written against the time of the call
IsFreshAtCall(mtime) == clock - mtime < CACHE_LIFESPAN

\* main.py:49, NOW - cache_written_at < CACHE_LIFESPAN
IsFresh(mtime) == NOW - mtime < CACHE_LIFESPAN

\* main.py:58 without default=str: a datetime is written as null
SerializedNoDefault(func_name, data) ==
    LET drop(o) == [k \in DOMAIN o |->
                      IF k \in DateKeys THEN [j |-> "null", s |-> ""] ELSE o[k]]
        text == Dump(func_name, data)
    IN  IF func_name \in ListOps
        THEN [i \in 1..Len(text) |-> drop(text[i])]
        ELSE drop(text)

\* main.py:58, the text written to the cache file
Serialized(func_name, data) == Dump(func_name, data)

\* inner with the file written before the data is known to exist
InnerWriteFirst(func_name, outcome) ==
    LET cache_file == CacheFile(func_name)
        entry == cache[cache_file]
    IN  IF entry.is_file /\ IsFresh(entry.mtime)
        THEN [hit |-> TRUE, calls |-> 0, raised |-> FALSE,
              data |-> Load(func_name, entry.text), cache |-> cache]
        ELSE IF outcome.raised
        THEN [hit |-> FALSE, calls |-> 1, raised |-> TRUE, data |-> <<>>,
              cache |-> [cache EXCEPT ![cache_file] =
                            [is_file |-> TRUE, text |-> <<>>, mtime |-> clock]]]
        ELSE [hit |-> FALSE, calls |-> 1, raised |-> FALSE, data |-> outcome.data,
              cache |-> [cache EXCEPT ![cache_file] =
                            [is_file |-> TRUE,
                             text |-> Serialized(func_name, outcome.data),
                             mtime |-> clock]]]

\* main.py:39-60.  `outcome` is what func does if it is called: it returns
\* outcome.data or raises.  The result says which path the call took, how
\* often func was called, what the call returned and the directory after it.
inner(func_name, outcome) ==
    LET cache_file == CacheFile(func_name)
        entry == cache[cache_file]
    IN  IF entry.is_file /\ IsFresh(entry.mtime)
        THEN [hit |-> TRUE, calls |-> 0, raised |-> FALSE,
              data |-> Load(func_name, entry.text), cache |-> cache]
        ELSE IF outcome.raised
        THEN [hit |-> FALSE, calls |-> 1, raised |-> TRUE, data |-> <<>>,
              cache |-> cache]
        ELSE [hit |-> FALSE, calls |-> 1, raised |-> FALSE, data |-> outcome.data,
              cache |-> [cache EXCEPT ![cache_file] =
                            [is_file |-> TRUE,
                             text |-> Serialized(func_name, outcome.data),
                             mtime |-> clock]]]

-----------------------------------------------------------------------------
(* The wrapped operations *)

\* main.py:68-73
instance_summary(instance) ==
    [uri |-> instance.uri, title |-> instance.title,
     short_description |-> instance.short_description,
     contact_account |-> instance.contact_account.display_name]

\* main.py:112, 121: handle in related_accounts
HasHandle(related, handle) == \E i \in 1..Len(related) : related[i].acct = handle
IndexOf(related, handle) == CHOOSE i \in 1..Len(related) : related[i].acct = handle

\* main.py:116, 125 moved under the `if`: the flag is set only on insertion
MergeAccountInsertOnly(related, account, own, other) ==
    IF ~HasHandle(related, account.acct)
    THEN Append(related, Put(Put(account, other, FALSE), own, TRUE))
    ELSE related

\* main.py:110-116 (own = "follower", other = "following") and 119-125 (the
\* reverse): one iteration of a loop.
MergeAccount(related, account, own, other) ==
    LET handle == account.acct
        inserted == IF ~HasHandle(related, handle)
                    THEN Append(related, Put(account, other, FALSE))
                    ELSE related
    IN  [inserted EXCEPT ![IndexOf(inserted, handle)] = Put(@, own, TRUE)]

\* main.py:109, 118: for account in ...
RECURSIVE MergePass(_, _, _, _)
MergePass(related, accounts, own, other) ==
    IF accounts = <<>> THEN related
    ELSE MergePass(MergeAccount(related, Head(accounts), own, other),
                   Tail(accounts), own, other)

\* main.py:107-125: the dict after both loops, in insertion order
RelatedAccounts(followers, following) ==
    MergePass(MergePass(<<>>, followers, "follower", "following"),
              following, "following", "follower")

\* main.py:130 with account["suspended"] is not False
TruthyUnlessFalse(account) ==
    ~("suspended" \in DOMAIN account /\ account.suspended = FALSE)

\* main.py:130, account.get("suspended")
IsSuspended(account) == "suspended" \in DOMAIN account /\ account.suspended

\* list.sort(key=acct): insertion into the sorted prefix, after equal keys (stable)
RECURSIVE InsertSorted(_, _)
InsertSorted(sorted, account) ==
    IF sorted = <<>> THEN <<account>>
    ELSE IF Rank(account.acct) < Rank(Head(sorted).acct)
         THEN <<account>> \o sorted
         ELSE <<Head(sorted)>> \o InsertSorted(Tail(sorted), account)

RECURSIVE SortedFrom(_, _)
SortedFrom(sorted, accounts) ==
    IF accounts = <<>> THEN sorted
    ELSE SortedFrom(InsertSorted(sorted, Head(accounts)), Tail(accounts))

\* main.py:132 left out
Unsorted(accounts) == accounts

\* main.py:132
SortByAcct(accounts) == SortedFrom(<<>>, accounts)

\* main.py:127-134
SuspendedSorted(related) == SortByAcct(SelectSeq(related, IsSuspended))

\* main.py:15-21
SUSPENDED_TABLE_COLUMNS == <<"url", "acct", "last_status_at", "follower", "following">>
Columns == {SUSPENDED_TABLE_COLUMNS[i] : i \in 1..Len(SUSPENDED_TABLE_COLUMNS)}

\* main.py:141, row[column] raises KeyError for a column the row lacks
RowsRaise(accounts) == \E i \in 1..Len(accounts) : ~(Columns \subseteq DOMAIN accounts[i])

\* main.py:140-143
suspended_table_rows(accounts) ==
    [i \in 1..Len(accounts) |-> [column \in Columns |-> accounts[i][column]]]

\* main.py:161, str(account.get(column))
StrOf(column, row) ==
    IF column \notin DOMAIN row THEN "None"
    ELSE CASE column \in StringKeys -> row[column]
           [] column \in BoolKeys -> IF row[column] THEN "True" ELSE "False"
           [] column \in DateKeys -> row[column].s

\* main.py:157-162: the rows added to the table
TableRows(account_rows) ==
    [i \in 1..Len(account_rows) |->
        [row |-> i,
         values |-> [c \in 1..Len(SUSPENDED_TABLE_COLUMNS) |->
                        StrOf(SUSPENDED_TABLE_COLUMNS[c], account_rows[i])]]]

\* main.py:101-134 without the second loop (lines 118-125)
MySuspendedFollowersOnly(followers, following) ==
    SuspendedSorted(RelatedAccounts(followers, <<>>))

\* main.py:101-134
my_suspended_acquaintances(followers, following) ==
    SuspendedSorted(RelatedAccounts(followers, following))

\* main.py:113, 122: the dict holds the caller's own account object, so the
\* flags set on it show in the caller's list.  An account of `accounts` is
\* the stored object when it is the first of its handle in its list and,
\* for the list processed second, the handle is not in the first list.
Aliased(accounts, related, earlier) ==
    [i \in 1..Len(accounts) |->
        IF /\ ~HasHandle(earlier, accounts[i].acct)
           /\ \A j \in 1..(i - 1) : accounts[j].acct # accounts[i].acct
        THEN related[IndexOf(related, accounts[i].acct)]
        ELSE accounts[i]]

-----------------------------------------------------------------------------
(* The program *)

NoCall == [op |-> "none", hit |-> FALSE, calls |-> 0, raised |-> FALSE, had |-> FALSE]

Init ==
    /\ clock = 0
    /\ NOW = 0
    /\ pc = "idle"
    /\ cache = [f \in Ops |-> NoFile]
    /\ this_user = <<>>
    /\ followers_me = <<>>
    /\ following_me = <<>>
    /\ suspended_accounts = <<>>
    /\ related_accounts = <<>>
    /\ table = <<>>
    /\ returned = <<>>
    /\ last = NoCall
    /\ origin = [f \in Ops |-> <<>>]
    /\ wrote = {}
    /\ prev = {}

\* What one call of a stored operation leaves behind: r is inner's result.
Called(func_name, r) ==
    /\ cache' = r.cache
    /\ returned' = r.data
    /\ last' = [op |-> func_name, hit |-> r.hit, calls |-> r.calls,
                raised |-> r.raised, had |-> cache[func_name].is_file]
    /\ origin' = IF ~r.hit /\ ~r.raised
                 THEN [origin EXCEPT ![func_name] = r.data] ELSE origin
    /\ wrote' = IF ~r.hit /\ ~r.raised THEN wrote \cup {func_name} ELSE wrote

\* The wall clock advances, at any time.
Tick ==
    /\ clock < MaxTime
    /\ clock' = clock + 1
    /\ UNCHANGED <<NOW, pc, cache, this_user, followers_me, following_me,
                   suspended_accounts, related_accounts, table, returned,
                   last, origin, wrote, prev>>

\* A run of the script begins: main.py:26 and 169-171.
Start ==
    /\ pc \in {"idle", "done", "error"}
    /\ NOW' = clock
    /\ pc' = "instance_summary"
    /\ this_user' = <<>>
    /\ followers_me' = <<>>
    /\ following_me' = <<>>
    /\ suspended_accounts' = <<>>
    /\ related_accounts' = <<>>
    /\ table' = <<>>
    /\ returned' = <<>>
    /\ last' = NoCall
    /\ prev' = IF pc = "error" THEN wrote ELSE {}
    /\ wrote' = {}
    /\ UNCHANGED <<clock, cache, origin>>

\* main.py:172
CallInstanceSummary ==
    /\ pc = "instance_summary"
    /\ \E outcome \in {Raise} \cup {Return(instance_summary(i)) : i \in Instances} :
         LET r == inner("instance_summary", outcome)
         IN  /\ Called("instance_summary", r)
             /\ pc' = IF r.raised THEN "error" ELSE "my_info"
    /\ UNCHANGED <<clock, NOW, this_user, followers_me, following_me,
                   suspended_accounts, related_accounts, table, prev>>

\* main.py:173
CallMyInfo ==
    /\ pc = "my_info"
    /\ \E outcome \in {Raise} \cup {Return(u) : u \in Users} :
         LET r == inner("my_info", outcome)
         IN  /\ Called("my_info", r)
             /\ this_user' = IF r.raised THEN this_user ELSE r.data
             /\ pc' = IF r.raised THEN "error" ELSE "followers"
    /\ UNCHANGED <<clock, NOW, followers_me, following_me,
                   suspended_accounts, related_accounts, table, prev>>

\* main.py:175
CallFollowers ==
    /\ pc = "followers"
    /\ \E outcome \in {Raise} \cup {Return(l) : l \in FetchedLists} :
         LET r == inner("followers", outcome)
         IN  /\ Called("followers", r)
             /\ followers_me' = IF r.raised THEN followers_me ELSE r.data
             /\ pc' = IF r.raised THEN "error" ELSE "following"
    /\ UNCHANGED <<clock, NOW, this_user, following_me,
                   suspended_accounts, related_accounts, table, prev>>

\* main.py:177
CallFollowing ==
    /\ pc = "following"
    /\ \E outcome \in {Raise} \cup {Return(l) : l \in FetchedLists} :
         LET r == inner("following", outcome)
         IN  /\ Called("following", r)
             /\ following_me' = IF r.raised THEN following_me ELSE r.data
             /\ pc' = IF r.raised THEN "error" ELSE "my_suspended_acquaintances"
    /\ UNCHANGED <<clock, NOW, this_user, followers_me,
                   suspended_accounts, related_accounts, table, prev>>

\* main.py:182-184.  The function raises nothing on accounts that have a handle.
CallMySuspendedAcquaintances ==
    /\ pc = "my_suspended_acquaintances"
    /\ LET related == RelatedAccounts(followers_me, following_me)
           r == inner("my_suspended_acquaintances",
                      Return(my_suspended_acquaintances(followers_me, following_me)))
       IN  /\ Called("my_suspended_acquaintances", r)
           /\ suspended_accounts' = r.data
           /\ related_accounts' = IF r.hit THEN related_accounts ELSE related
           /\ followers_me' = IF r.hit THEN followers_me
                              ELSE Aliased(followers_me, related, <<>>)
           /\ following_me' = IF r.hit THEN following_me
                              ELSE Aliased(following_me, related, followers_me)
           /\ pc' = "accounts_table"
    /\ UNCHANGED <<clock, NOW, this_user, table, prev>>

\* main.py:188-190, accounts_table (main.py:146-164): accounts[0] at line 148
\* raises IndexError on an empty list, before anything else is done.
AccountsTable ==
    /\ pc = "accounts_table"
    /\ IF suspended_accounts = <<>>
       THEN /\ pc' = "error"
            /\ UNCHANGED <<cache, returned, last, origin, wrote, table>>
       ELSE LET r == inner("suspended_table_rows",
                           IF RowsRaise(suspended_accounts) THEN Raise
                           ELSE Return(suspended_table_rows(suspended_accounts)))
            IN  /\ Called("suspended_table_rows", r)
                /\ table' = IF r.raised THEN table ELSE TableRows(r.data)
                /\ pc' = IF r.raised THEN "error" ELSE "done"
    /\ UNCHANGED <<clock, NOW, this_user, followers_me, following_me,
                   suspended_accounts, related_accounts, prev>>

Next ==
    \/ Tick
    \/ Start
    \/ CallInstanceSummary
    \/ CallMyInfo
    \/ CallFollowers
    \/ CallFollowing
    \/ CallMySuspendedAcquaintances
    \/ AccountsTable

Spec == Init /\ [][Next]_vars

-----------------------------------------------------------------------------
(* The reconciler and the table on their own: main from line 182 on, with  *)
(* any two lists of accounts and an empty working directory.               *)

InitReconciler ==
    /\ clock = 0
    /\ NOW = 0
    /\ pc = "my_suspended_acquaintances"
    /\ cache = [f \in Ops |-> NoFile]
    /\ this_user = <<>>
    /\ \E accounts \in SeqsUpTo(ApiAccounts, MaxAccounts) :
         \E k \in 0..Len(accounts) :
            /\ followers_me = SubSeq(accounts, 1, k)
            /\ following_me = SubSeq(accounts, k + 1, Len(accounts))
    /\ suspended_accounts = <<>>
    /\ related_accounts = <<>>
    /\ table = <<>>
    /\ returned = <<>>
    /\ last = NoCall
    /\ origin = [f \in Ops |-> <<>>]
    /\ wrote = {}
    /\ prev = {}

NextReconciler == CallMySuspendedAcquaintances \/ AccountsTable

SpecReconciler == InitReconciler /\ [][NextReconciler]_vars

-----------------------------------------------------------------------------
(* Properties of the reconciler                                            *)

HandlesOf(accounts) == {accounts[i].acct : i \in 1..Len(accounts)}

\* my_suspended_acquaintances ran in this run (the cache-miss path of its call).
Reconciled ==
    /\ pc \in {"accounts_table", "done", "error"}
    /\ "my_suspended_acquaintances" \in wrote

\* The dict as it would be with `following` processed first.
RelatedAccountsSwapped ==
    MergePass(MergePass(<<>>, following_me, "following", "follower"),
              followers_me, "follower", "following")

\* C4.  Every reconciled record has follower true iff its handle occurs in
\* the followers input and following true iff it occurs in the following
\* input, and processing the inputs in the other order gives every handle
\* the same two flags.
C4_RelationFlags ==
    Reconciled =>
        /\ \A i \in 1..Len(related_accounts) :
             LET account == related_accounts[i]
             IN  /\ {"follower", "following"} \subseteq DOMAIN account
                 /\ account.follower <=> account.acct \in HandlesOf(followers_me)
                 /\ account.following <=> account.acct \in HandlesOf(following_me)
        /\ {<<a.acct, a.follower, a.following>> :
               a \in {related_accounts[i] : i \in 1..Len(related_accounts)}}
           = {<<a.acct, a.follower, a.following>> :
               a \in {RelatedAccountsSwapped[i] : i \in 1..Len(RelatedAccountsSwapped)}}

\* C4's case: a handle twice in followers and also in following.
C4_Witness ==
    /\ Reconciled
    /\ \E i, j \in 1..Len(followers_me) :
         /\ i # j
         /\ followers_me[i].acct = followers_me[j].acct
         /\ followers_me[i].acct \in HandlesOf(following_me)
    /\ \E i \in 1..Len(related_accounts) :
         related_accounts[i].follower /\ related_accounts[i].following

\* C5.  The returned list holds only records whose suspended field is true
\* and whose handle occurs in an input; no reconciled record whose suspended
\* field is false or absent is in it, and the call raises nothing.
C5_SuspendedFilter ==
    (Reconciled /\ pc = "accounts_table") =>
        /\ ~last.raised
        /\ returned = suspended_accounts
        /\ \A i \in 1..Len(suspended_accounts) :
             LET account == suspended_accounts[i]
             IN  /\ "suspended" \in DOMAIN account
                 /\ account.suspended = TRUE
                 /\ account.acct \in HandlesOf(followers_me) \cup HandlesOf(following_me)
        /\ \A i \in 1..Len(related_accounts) :
             LET account == related_accounts[i]
             IN  ("suspended" \notin DOMAIN account \/ account.suspended = FALSE)
                    => account.acct \notin HandlesOf(suspended_accounts)

\* C5's case: one reconciled record has no suspended field, one is not
\* suspended, and one is suspended and returned.
C5_Witness ==
    /\ Reconciled
    /\ pc = "accounts_table"
    /\ \E i \in 1..Len(related_accounts) : "suspended" \notin DOMAIN related_accounts[i]
    /\ \E i \in 1..Len(related_accounts) :
         "suspended" \in DOMAIN related_accounts[i] /\ ~related_accounts[i].suspended
    /\ suspended_accounts # <<>>

\* C6.  Every handle of either input has exactly one reconciled record, and
\* the returned list is in strictly ascending order of handle.
C6_DeduplicatedSorted ==
    Reconciled =>
        /\ \A h \in HandlesOf(followers_me) \cup HandlesOf(following_me) :
             Cardinality({i \in 1..Len(related_accounts) : related_accounts[i].acct = h}) = 1
        /\ \A i \in 1..(Len(suspended_accounts) - 1) :
             Rank(suspended_accounts[i].acct) < Rank(suspended_accounts[i + 1].acct)

\* C6's case: a handle occurs in both inputs, and the suspended records were
\* inserted in descending order of handle.
C6_Witness ==
    /\ Reconciled
    /\ HandlesOf(followers_me) \cap HandlesOf(following_me) # {}
    /\ Len(suspended_accounts) >= 2
    /\ \E i, j \in 1..Len(related_accounts) :
         /\ i < j
         /\ IsSuspended(related_accounts[i])
         /\ IsSuspended(related_accounts[j])
         /\ Rank(related_accounts[i].acct) > Rank(related_accounts[j].acct)

-----------------------------------------------------------------------------
(* Properties of the cache                                                 *)

\* This step is the call of the stored operation op.
CallOf(op) == last'.op = op /\ last.op # op

\* Whether op's entry exists and was written within the window before NOW.
WithinWindow(op) == cache[op].is_file /\ NOW - cache[op].mtime < CACHE_LIFESPAN

\* A value with each datetime replaced by its text, and nothing else changed.
FallbackDict(d) ==
    [k \in DOMAIN d |->
        IF k \in DateKeys /\ d[k].ty = "datetime" THEN Str(d[k].s) ELSE d[k]]
TextualFallback(op, data) ==
    IF op \in ListOps THEN [i \in 1..Len(data) |-> FallbackDict(data[i])]
    ELSE FallbackDict(data)

\* C1.  A call returns the entry and does not invoke the operation exactly
\* when the operation's entry exists and NOW minus its write time is less
\* than CACHE_LIFESPAN; otherwise it invokes the operation.  NOW changes
\* only when a process starts.
C1_TimeBoxedPolicy ==
    [][/\ \A op \in Ops :
            CallOf(op) =>
                /\ last'.hit <=> WithinWindow(op)
                /\ last'.calls = (IF WithinWindow(op) THEN 0 ELSE 1)
                /\ WithinWindow(op) => returned' = Load(op, cache[op].text)
                /\ NOW' = NOW
       /\ NOW' # NOW => pc \in {"idle", "done", "error"} /\ pc' = "instance_summary"
      ]_vars

\* C1's case: the entry existed, was a full window old, and the operation
\* was invoked and returned.
C1_Witness ==
    /\ last.op # "none"
    /\ last.had
    /\ ~last.hit
    /\ ~last.raised
    /\ last.calls = 1

\* C2.  A call on the miss path returns the operation's value and leaves its
\* dump as the operation's entry; a call on the hit path returns the value
\* the entry was written from, with each datetime as its text.
C2_CacheRoundTrip ==
    (last.op # "none" /\ ~last.raised) =>
        /\ ~last.hit =>
             /\ returned = origin[last.op]
             /\ cache[last.op].is_file
             /\ cache[last.op].text = Dump(last.op, returned)
             /\ cache[last.op].mtime \in NOW..clock
        /\ last.hit => returned = TextualFallback(last.op, origin[last.op])

\* C2's case: a hit on an entry written from a value holding a datetime.
C2_Witness ==
    /\ last.op = "my_info"
    /\ last.hit
    /\ origin["my_info"].created_at.ty = "datetime"
    /\ returned.created_at.ty = "str"
    /\ returned.id = origin["my_info"].id

\* C3.  A call that finds its operation's entry within the window does not
\* invoke the operation and returns what the call that wrote the entry
\* returned, as that entry holds it (the very value when it holds no
\* datetime), whatever the arguments now are; the entry read is the
\* operation's own.
C3_KeyedByOperation ==
    (last.op # "none" /\ last.hit) =>
        /\ last.calls = 0
        /\ ~last.raised
        /\ returned = Load(last.op, cache[last.op].text)
        /\ returned = TextualFallback(last.op, origin[last.op])
        /\ last.op = "instance_summary" => returned = origin[last.op]

\* C3's case: a hit of my_suspended_acquaintances with arguments from which
\* the operation would have produced another list.
C3_Witness ==
    /\ pc = "accounts_table"
    /\ last.op = "my_suspended_acquaintances"
    /\ last.hit
    /\ HandlesOf(returned)
         # HandlesOf(my_suspended_acquaintances(followers_me, following_me))

\* The first account of a handle in a list.
FirstOf(h, accounts) ==
    accounts[CHOOSE i \in 1..Len(accounts) :
                /\ accounts[i].acct = h
                /\ \A j \in 1..(i - 1) : accounts[j].acct # h]

\* The handles whose first account, followers before following, is suspended.
SuspendedHandles(followers, following) ==
    {h \in HandlesOf(followers \o following) :
        LET account == FirstOf(h, followers \o following)
        IN  "suspended" \in DOMAIN account /\ account.suspended = TRUE}

C8_ReportRows ==
    (/\ pc \in {"done", "error"}
     /\ last.op \in {"my_suspended_acquaintances", "suspended_table_rows"}) =>
        /\ pc = "done"
        /\ Len(table) = Len(suspended_accounts)
        /\ \A i \in 1..Len(table) :
             /\ table[i].row = i
             /\ table[i].values[2] = suspended_accounts[i].acct

\* C9.  In the run after one that ended with an error, a call of an
\* operation the failed run had completed, whose entry is within the window
\* of this run's NOW, returns the entry, invokes nothing and writes nothing;
\* when all those entries are within the window, no completed operation is
\* invoked.
C9_ResumeAfterError ==
    [][\A op \in Ops :
          CallOf(op) =>
              /\ (op \in prev /\ WithinWindow(op)) =>
                    /\ last'.hit
                    /\ last'.calls = 0
                    /\ returned' = Load(op, cache[op].text)
                    /\ cache' = cache
              /\ ((\A o \in prev : WithinWindow(o)) /\ last'.calls > 0) => op \notin prev
      ]_vars

\* C9's case: the failed run had completed instance_summary only; this run
\* took its entry and invoked my_info, after the clock had moved on.
C9_Witness ==
    /\ prev = {"instance_summary"}
    /\ pc = "followers"
    /\ wrote = {"my_info"}
    /\ clock > NOW

\* C10.  A call whose operation raises ends the run with the error, has
\* invoked the operation once and leaves every cache file as it was; no
\* call touches the entry of another operation.
C10_ErrorLeavesCache ==
    [][\A op \in Ops :
          CallOf(op) =>
              /\ last'.raised => (cache' = cache /\ last'.calls = 1 /\ pc' = "error")
              /\ \A o \in Ops \ {op} : cache'[o] = cache[o]
      ]_vars

\* C10's case: the operation raised on the miss path while a stale entry of
\* it existed.
C10_Witness ==
    /\ pc = "error"
    /\ last.raised
    /\ last.had
    /\ cache[last.op].is_file
    /\ cache[last.op].mtime < NOW

=============================================================================
